---- MODULE Spec2Model ----
(***************************************************************************)
(* Paper-gen: the iterative generate / evaluate / revise loop of           *)
(* PaperWorkflow.run_workflow, with the generator and the evaluator it     *)
(* drives and the request a serving wrapper hands to it.                   *)
(*                                                                         *)
(* Texts are sequences of tokens (words, whitespace tokens, label tokens   *)
(* such as "TOTAL:" and digit tokens such as "16").  A Python dict is a    *)
(* sequence of [k, v] entries in insertion order.  A call that can raise   *)
(* returns [exc, val]: exc is the empty text when the call returned val,   *)
(* and the exception's message when it raised.                             *)
(***************************************************************************)
EXTENDS Integers, Sequences, FiniteSets, TLC

(* ---------------------------------------------------------------------- *)
(* Bounds of the model                                                     *)
(* ---------------------------------------------------------------------- *)
MaxSections == 2

\* lines of a text handed to a function that is called on its own
MaxLines == 3

\* sections of a dictionary handed to generate_latex
MaxKeys == 3

\* jobs submitted to the server
MaxJobs == 2

(* ---------------------------------------------------------------------- *)
(* config.py                                                               *)
(* ---------------------------------------------------------------------- *)
SCORE_THRESHOLD == 32

MAX_ITERATIONS == 5

(* ---------------------------------------------------------------------- *)
(* State of one workflow run and of its caller                             *)
(* ---------------------------------------------------------------------- *)
VARIABLES
    entry,            \* "api": generate_paper_task runs the workflow; "direct"
    request,          \* the PaperRequest of the job
    input_data,       \* the dictionary handed to run_workflow
    pc,               \* position of the run
    title,            \* run_workflow locals
    sections,
    sections_content,
    feedback_dict,
    iteration,
    total_score,
    evaluations,
    returned,         \* the results run_workflow has returned, in order
    error,            \* message of the exception that left run_workflow
    files,            \* names of the output files written
    gen_calls,        \* history: generate_section calls of the latest pass
    eval_calls,       \* history: evaluate_section calls of the latest pass
    last_evals,       \* history: what evaluate_paper last returned
    first_verdict,    \* history: "met" iff the first paper total was >= SCORE_THRESHOLD
    loop_count,       \* history: loop bodies entered
    gen_count,        \* history: generation service calls of the run
    eval_count,       \* history: scoring service calls of the run
    fb_derived,       \* history: feedback maps derived from an evaluation
    fb_consumed,      \* history: a generation call received non-empty feedback
    gen_failed,       \* history: a generation service call of the run failed
    evaluation_text,  \* parse_evaluation: the raw scoring text handed to it
    parsed,           \* parse_evaluation: the results it has returned
    arg_section_name, \* format_section: the section name handed to it
    arg_content,      \* format_section, clean_markdown_formatting: the text
    cleaned_text,     \* clean_markdown_formatting: the results it has returned
    formatted_text,   \* format_section: the results it has returned
    arg_sections,     \* generate_latex: the section dictionary handed to it
    latex_text,       \* generate_latex: the results it has returned
    jobs,             \* api.py: the job registry, job_id -> record
    latest_paper,     \* api.py: the latest paper, for the legacy endpoints
    latest_by,        \* history: the task that wrote each half of latest_paper
    disk,             \* the files of the working directory, name -> content
    tasks,            \* the background tasks, in the order they were added
    response,         \* the answer of the latest endpoint call
    collided          \* history: a submit drew an identifier already in jobs

vars ==
    <<entry, request, input_data, pc, title, sections, sections_content,
      feedback_dict, iteration, total_score, evaluations, returned, error,
      files, gen_calls, eval_calls, last_evals, first_verdict, loop_count,
      gen_count, eval_count, fb_derived, fb_consumed, gen_failed,
      evaluation_text, parsed, arg_section_name, arg_content, cleaned_text,
      formatted_text, arg_sections, latex_text, jobs, latest_paper,
      latest_by, disk, tasks, response, collided>>

locals ==
    <<title, sections, sections_content, feedback_dict, iteration,
      total_score, evaluations>>

history ==
    <<gen_calls, eval_calls, last_evals, first_verdict, loop_count,
      gen_count, eval_count, fb_derived, fb_consumed, gen_failed>>

\* state outside a workflow run: the arguments and results of the functions
\* that are also called on their own
parser == <<evaluation_text, parsed>>

converter ==
    <<arg_section_name, arg_content, cleaned_text, formatted_text,
      arg_sections, latex_text>>

\* the state of the API server
server == <<jobs, latest_paper, latest_by, disk, tasks, response, collided>>

others == <<parser, converter, server>>

(* ---------------------------------------------------------------------- *)
(* Python values                                                           *)
(* ---------------------------------------------------------------------- *)
EmptyText == << >>

EmptyDict == << >>

Whitespace == {" ", "\n"}

\* str.strip(): drop the leading and the trailing whitespace
RECURSIVE LStrip(_)
LStrip(t) ==
    IF t # << >> /\ Head(t) \in Whitespace THEN LStrip(Tail(t)) ELSE t

RECURSIVE RStrip(_)
RStrip(t) ==
    IF t # << >> /\ t[Len(t)] \in Whitespace
    THEN RStrip(SubSeq(t, 1, Len(t) - 1))
    ELSE t

Strip(t) == RStrip(LStrip(t))

\* dict operations, insertion order kept
DictKeys(d) == {d[i].k : i \in 1..Len(d)}

DictHas(d, key) == \E i \in 1..Len(d) : d[i].k = key

DictGet(d, key, default) ==
    IF DictHas(d, key)
    THEN d[CHOOSE i \in 1..Len(d) : d[i].k = key].v
    ELSE default

DictSet(d, key, value) ==
    IF DictHas(d, key)
    THEN [i \in 1..Len(d) |-> IF d[i].k = key THEN [k |-> key, v |-> value] ELSE d[i]]
    ELSE Append(d, [k |-> key, v |-> value])

\* a return value and a raised exception
Return(value) == [exc |-> EmptyText, val |-> value]

Raise(message, dummy) == [exc |-> message, val |-> dummy]

Raised(r) == r.exc # EmptyText

(* ---------------------------------------------------------------------- *)
(* generator.py                                                            *)
(* ---------------------------------------------------------------------- *)
\* what generator_chain.run can answer: a text, or an exception
GenResponses ==
    { [ok |-> TRUE,  text |-> <<" ", "Body", "\n">>],
      [ok |-> FALSE, text |-> <<"timeout">>] }

\* the feedback directive of the prompt: empty unless feedback is given
feedback_prompt(feedback) ==
    IF feedback # EmptyText
    THEN <<"Previous Feedback (use this to improve):\n">> \o feedback
         \o <<"\n\nIMPORTANT: Continue to write in plain text without markdown formatting.\n">>
    ELSE EmptyText

generate_section_uncaught(ttl, section, feedback, resp) ==
    IF resp.ok
    THEN Return(Strip(resp.text))
    ELSE Raise(resp.text, EmptyText)

\* generate_section: resp is the answer of generator_chain.run to the prompt
generate_section(ttl, section, feedback, resp) ==
    IF resp.ok
    THEN Return(Strip(resp.text))
    ELSE Return(<<"[Error generating content: ">> \o resp.text \o <<"]">>)

\* the loop of generate_all_sections from position i on; acc carries the
\* content dict built so far and the calls made so far
RECURSIVE generate_loop(_, _, _, _, _, _)
generate_loop(ttl, sects, fb_dict, resps, i, acc) ==
    IF i > Len(sects)
    THEN acc
    ELSE LET section  == sects[i]
             feedback == DictGet(fb_dict, section, EmptyText)
             r        == generate_section(ttl, section, feedback, resps[i])
             call     == [section  |-> section,
                          feedback |-> feedback,
                          prompt   |-> feedback_prompt(feedback),
                          resp     |-> resps[i],
                          result   |-> r]
         IN  IF Raised(r)
             THEN [acc EXCEPT !.exc = r.exc, !.calls = Append(@, call)]
             ELSE generate_loop(ttl, sects, fb_dict, resps, i + 1,
                      [acc EXCEPT !.val   = DictSet(@, section, r.val),
                                  !.calls = Append(@, call)])

generate_all_sections(ttl, sects, fb_dict, resps) ==
    generate_loop(ttl, sects, fb_dict, resps, 1,
                  [exc |-> EmptyText, val |-> EmptyDict, calls |-> << >>])

(* ---------------------------------------------------------------------- *)
(* evaluator.py                                                            *)
(* ---------------------------------------------------------------------- *)
\* the digit tokens of the scoring texts and int() of each
DigitTokens == {"0", "8", "10", "40"}

IntOf(tok) ==
    CASE tok = "0"  -> 0
      [] tok = "8"  -> 8
      [] tok = "10" -> 10
      [] tok = "40" -> 40

\* re.IGNORECASE: the spellings of a label that the pattern accepts
LabelForms(label) ==
    CASE label = "RELEVANCE:"   -> {"RELEVANCE:", "Relevance:", "relevance:"}
      [] label = "COHERENCE:"   -> {"COHERENCE:", "Coherence:", "coherence:"}
      [] label = "FACTUALITY:"  -> {"FACTUALITY:", "Factuality:", "factuality:"}
      [] label = "READABILITY:" -> {"READABILITY:", "Readability:", "readability:"}
      [] label = "TOTAL:"       -> {"TOTAL:", "Total:", "total:"}
      [] label = "FEEDBACK:"    -> {"FEEDBACK:", "Feedback:", "feedback:"}

\* \s* from position j: the first position at or after j that holds no whitespace
RECURSIVE SkipWhitespace(_, _)
SkipWhitespace(text, j) ==
    IF j <= Len(text) /\ text[j] \in Whitespace
    THEN SkipWhitespace(text, j + 1)
    ELSE j

\* LABEL:\s*(\d+) matches at position i
ScoreMatchAt(text, label, i) ==
    /\ text[i] \in LabelForms(label)
    /\ LET j == SkipWhitespace(text, i + 1)
       IN  j <= Len(text) /\ text[j] \in DigitTokens

NoMatch == -1

\* the leftmost position at or after i where LABEL:\s*(\d+) matches, 0 if none
RECURSIVE FirstScoreMatch(_, _, _)
FirstScoreMatch(text, label, i) ==
    IF i > Len(text) THEN 0
    ELSE IF ScoreMatchAt(text, label, i) THEN i
    ELSE FirstScoreMatch(text, label, i + 1)

\* re.search(r'LABEL:\s*(\d+)', text, re.IGNORECASE) and int(group(1)):
\* the leftmost match, NoMatch when there is none
score_search(text, label) ==
    LET m == FirstScoreMatch(text, label, 1)
    IN  IF m # 0
        THEN IntOf(text[SkipWhitespace(text, m + 1)])
        ELSE NoMatch

FeedbackMatchAt_unlabelled(text, i) == i < Len(text)

\* FEEDBACK:\s*(.+) with re.DOTALL matches at position i: something follows
FeedbackMatchAt(text, i) ==
    text[i] \in LabelForms("FEEDBACK:") /\ i < Len(text)

\* the leftmost position at or after i where FEEDBACK:\s*(.+) matches, 0 if none
RECURSIVE FirstFeedbackMatch(_, _)
FirstFeedbackMatch(text, i) ==
    IF i > Len(text) THEN 0
    ELSE IF FeedbackMatchAt(text, i) THEN i
    ELSE FirstFeedbackMatch(text, i + 1)

parse_evaluation_summed(text) ==
    LET score(label) == IF score_search(text, label) # NoMatch
                        THEN score_search(text, label) ELSE 0
    IN  [relevance   |-> score("RELEVANCE:"),
         coherence   |-> score("COHERENCE:"),
         factuality  |-> score("FACTUALITY:"),
         readability |-> score("READABILITY:"),
         total       |-> score("RELEVANCE:") + score("COHERENCE:")
                         + score("FACTUALITY:") + score("READABILITY:"),
         feedback    |-> IF FirstFeedbackMatch(text, 1) # 0
                         THEN Strip(SubSeq(text, FirstFeedbackMatch(text, 1) + 1,
                                           Len(text)))
                         ELSE EmptyText]

\* parse_evaluation: no statement of the try block raises on a text, so the
\* except branch is never entered
parse_evaluation(text) ==
    LET relevance_match   == score_search(text, "RELEVANCE:")
        coherence_match   == score_search(text, "COHERENCE:")
        factuality_match  == score_search(text, "FACTUALITY:")
        readability_match == score_search(text, "READABILITY:")
        total_match       == score_search(text, "TOTAL:")
        feedback_match    == FirstFeedbackMatch(text, 1)
        relevance   == IF relevance_match   # NoMatch THEN relevance_match   ELSE 0
        coherence   == IF coherence_match   # NoMatch THEN coherence_match   ELSE 0
        factuality  == IF factuality_match  # NoMatch THEN factuality_match  ELSE 0
        readability == IF readability_match # NoMatch THEN readability_match ELSE 0
    IN  [relevance   |-> relevance,
         coherence   |-> coherence,
         factuality  |-> factuality,
         readability |-> readability,
         total       |-> IF total_match # NoMatch
                         THEN total_match
                         ELSE relevance + coherence + factuality + readability,
         feedback    |-> IF feedback_match # 0
                         THEN Strip(SubSeq(text, feedback_match + 1,
                                           Len(text)))
                         ELSE EmptyText]

\* what evaluator_chain.run can answer: a scoring text, or an exception
ScoreResponses ==
    { [ok |-> TRUE,
       text |-> <<"RELEVANCE:", " ", "10", "\n", "TOTAL:", " ", "40", "\n",
                  "FEEDBACK:", " ", "Good", "\n">>],
      [ok |-> TRUE,
       text |-> <<"coherence:", " ", "8", "\n", "readability:", "8", "\n",
                  "feedback:", " ", "Cite", " ", "sources">>],
      [ok |-> FALSE, text |-> <<"quota">>] }

\* evaluate_section: resp is the answer of evaluator_chain.run
evaluate_section(ttl, section, content, resp) ==
    IF resp.ok
    THEN Return(parse_evaluation(resp.text))
    ELSE Return([relevance   |-> 0,
                 coherence   |-> 0,
                 factuality  |-> 0,
                 readability |-> 0,
                 total       |-> 0,
                 feedback    |-> <<"Evaluation error: ">> \o resp.text])

\* the loop of evaluate_paper over sections_content.items() from position i on
RECURSIVE evaluate_loop(_, _, _, _, _)
evaluate_loop(ttl, content_dict, resps, i, acc) ==
    IF i > Len(content_dict)
    THEN acc
    ELSE LET section == content_dict[i].k
             content == content_dict[i].v
             r       == evaluate_section(ttl, section, content, resps[i])
             call    == [section |-> section, content |-> content,
                         resp |-> resps[i], result |-> r]
         IN  IF Raised(r)
             THEN [acc EXCEPT !.exc = r.exc, !.calls = Append(@, call)]
             ELSE evaluate_loop(ttl, content_dict, resps, i + 1,
                      [acc EXCEPT !.evaluations = DictSet(@, section, r.val),
                                  !.total_score = @ + r.val.total,
                                  !.calls       = Append(@, call)])

evaluate_paper_carried(ttl, content_dict, resps) ==
    evaluate_loop(ttl, content_dict, resps, 1,
                  [exc |-> EmptyText, evaluations |-> EmptyDict,
                   total_score |-> total_score, calls |-> << >>])

evaluate_paper(ttl, content_dict, resps) ==
    evaluate_loop(ttl, content_dict, resps, 1,
                  [exc |-> EmptyText, evaluations |-> EmptyDict,
                   total_score |-> 0, calls |-> << >>])

(* ---------------------------------------------------------------------- *)
(* The callers: api.py (PaperRequest, generate_paper_task) and a direct    *)
(* call of run_workflow with an input dictionary                           *)
(* ---------------------------------------------------------------------- *)
SectionNames == {"Abstract", "Introduction"}

SectionLists ==
    UNION {[1..n -> SectionNames] : n \in 0..MaxSections}

\* PaperRequest
Requests ==
    [title          : {"T"},
     sections       : SectionLists,
     feedback       : {EmptyText, <<"Focus", " ", "on", " ", "results">>},
     threshold      : {0, 1000},
     max_iterations : {3}]

\* no call of parse_evaluation on its own
NoParse ==
    /\ evaluation_text = EmptyText
    /\ parsed = << >>

\* no call of the converter on its own
NoConversion ==
    /\ arg_section_name = ""
    /\ arg_content = EmptyText
    /\ cleaned_text = << >>
    /\ formatted_text = << >>
    /\ arg_sections = EmptyDict
    /\ latex_text = << >>

\* an optional value: None, or the value x
None == << >>

Some(x) == <<x>>

\* no endpoint has answered
NoResponse ==
    [endpoint |-> "", known |-> FALSE, status |-> "", code |-> 0, body |-> None]

\* no server is running
NoServer ==
    /\ jobs = << >>
    /\ latest_paper = [json |-> None, latex |-> None]
    /\ latest_by = [json |-> 0, latex |-> 0]
    /\ disk = << >>
    /\ tasks = << >>
    /\ response = NoResponse
    /\ collided = FALSE

\* input dictionaries of a direct call: "sections" or "title" may be absent
DirectInputs ==
    { [title |-> "T"],
      [title |-> "T", sections |-> << >>],
      [sections |-> <<"Introduction">>, feedback |-> <<"Shorter">>] }

NoRequest ==
    [title |-> "", sections |-> << >>, feedback |-> EmptyText,
     threshold |-> 32, max_iterations |-> 3]

NoInput == [x \in {} |-> x]

Init ==
    /\ \/ /\ entry = "api"
          /\ request \in Requests
          /\ input_data = NoInput
          /\ pc = "task"
       \/ /\ entry = "direct"
          /\ request = NoRequest
          /\ input_data \in DirectInputs
          /\ pc = "start"
    /\ title = ""
    /\ sections = << >>
    /\ sections_content = EmptyDict
    /\ feedback_dict = EmptyDict
    /\ iteration = 0
    /\ total_score = 0
    /\ evaluations = EmptyDict
    /\ returned = << >>
    /\ error = EmptyText
    /\ files = {}
    /\ gen_calls = << >>
    /\ eval_calls = << >>
    /\ last_evals = EmptyDict
    /\ first_verdict = "none"
    /\ loop_count = 0
    /\ gen_count = 0
    /\ eval_count = 0
    /\ fb_derived = 0
    /\ fb_consumed = FALSE
    /\ gen_failed = FALSE
    /\ NoParse
    /\ NoConversion
    /\ NoServer

\* generate_paper_task: build input_data from the request, call run_workflow
PrepareInput ==
    /\ pc = "task"
    /\ input_data' = [title    |-> request.title,
                      sections |-> request.sections,
                      feedback |-> request.feedback]
    /\ pc' = "start"
    /\ UNCHANGED <<entry, request, locals, returned, error, files, history>>
    /\ UNCHANGED others

no_sections_ignored(s) == FALSE

\* "if not sections"
no_sections(s) == s = << >>

\* run_workflow, entry: read the input, reject an empty section list,
\* initialise the accumulators
RunWorkflowStart ==
    /\ pc = "start"
    /\ LET t == IF "title" \in DOMAIN input_data
                THEN input_data.title ELSE "Untitled Paper"
           s == IF "sections" \in DOMAIN input_data
                THEN input_data.sections ELSE << >>
       IN  /\ title' = t
           /\ sections' = s
           /\ IF no_sections(s)
              THEN /\ pc' = "error"
                   /\ error' = <<"No sections provided in input data">>
              ELSE /\ pc' = "loop"
                   /\ error' = error
    /\ sections_content' = EmptyDict
    /\ feedback_dict' = EmptyDict
    /\ iteration' = 0
    /\ total_score' = 0
    /\ evaluations' = EmptyDict
    /\ UNCHANGED <<entry, request, input_data, returned, files, history>>
    /\ UNCHANGED others

\* the while test
has_budget(n) == n < MAX_ITERATIONS

next_iteration_stuck(n) == n

\* iteration += 1
next_iteration(n) == n + 1

\* the while test, iteration += 1 and Step 1: generate_all_sections
Generate ==
    /\ pc = "loop"
    /\ IF has_budget(iteration)
       THEN \E resps \in [1..Len(sections) -> GenResponses] :
              LET r == generate_all_sections(title, sections, feedback_dict, resps)
              IN  /\ iteration' = next_iteration(iteration)
                  /\ loop_count' = loop_count + 1
                  /\ gen_calls' = r.calls
                  /\ gen_count' = gen_count + Len(r.calls)
                  /\ fb_consumed' =
                        (fb_consumed \/ \E i \in 1..Len(r.calls) :
                                            r.calls[i].feedback # EmptyText)
                  /\ gen_failed' =
                        (gen_failed \/ \E i \in 1..Len(r.calls) :
                                           ~r.calls[i].resp.ok)
                  /\ IF Raised(r)
                     THEN /\ pc' = "error"
                          /\ error' = r.exc
                          /\ sections_content' = sections_content
                     ELSE /\ pc' = "evaluate"
                          /\ error' = error
                          /\ sections_content' = r.val
       ELSE /\ pc' = "finalize"
            /\ UNCHANGED <<iteration, loop_count, gen_calls, gen_count,
                           fb_consumed, gen_failed, error, sections_content>>
    /\ UNCHANGED <<entry, request, input_data, title, sections, feedback_dict,
                   total_score, evaluations, returned, files, eval_calls,
                   last_evals, first_verdict, eval_count, fb_derived>>
    /\ UNCHANGED others

\* Step 2: evaluate_paper
Evaluate ==
    /\ pc = "evaluate"
    /\ \E resps \in [1..Len(sections_content) -> ScoreResponses] :
         LET r == evaluate_paper(title, sections_content, resps)
         IN  /\ eval_calls' = r.calls
             /\ eval_count' = eval_count + Len(r.calls)
             /\ IF Raised(r)
                THEN /\ pc' = "error"
                     /\ error' = r.exc
                     /\ UNCHANGED <<evaluations, total_score, last_evals,
                                    first_verdict>>
                ELSE /\ pc' = "decide"
                     /\ error' = error
                     /\ evaluations' = r.evaluations
                     /\ total_score' = r.total_score
                     /\ last_evals' = r.evaluations
                     /\ first_verdict' =
                           IF first_verdict # "none" THEN first_verdict
                           ELSE IF r.total_score >= SCORE_THRESHOLD THEN "met"
                           ELSE "below"
    /\ UNCHANGED <<entry, request, input_data, title, sections,
                   sections_content, feedback_dict, iteration, returned, files,
                   gen_calls, loop_count, gen_count, fb_derived, fb_consumed,
                   gen_failed>>
    /\ UNCHANGED others

derive_feedback_first(evals) ==
    [i \in 1..Len(evals) |-> [k |-> evals[i].k, v |-> evals[1].v.feedback]]

\* the feedback map for the next iteration
derive_feedback(evals) ==
    [i \in 1..Len(evals) |-> [k |-> evals[i].k, v |-> evals[i].v.feedback]]

threshold_met_strict(total) == total > SCORE_THRESHOLD

\* the threshold test
threshold_met(total) == total >= SCORE_THRESHOLD

\* the budget test after the evaluation
budget_exhausted(n) == n >= MAX_ITERATIONS

\* Step 3: the two break tests, else the feedback for the next iteration
Decide ==
    /\ pc = "decide"
    /\ IF threshold_met(total_score)
       THEN /\ pc' = "finalize"
            /\ UNCHANGED <<feedback_dict, fb_derived>>
       ELSE IF budget_exhausted(iteration)
       THEN /\ pc' = "finalize"
            /\ UNCHANGED <<feedback_dict, fb_derived>>
       ELSE /\ pc' = "loop"
            /\ feedback_dict' = derive_feedback(evaluations)
            /\ fb_derived' = fb_derived + 1
    /\ UNCHANGED <<entry, request, input_data, title, sections,
                   sections_content, iteration, total_score, evaluations,
                   returned, error, files, gen_calls, eval_calls, last_evals,
                   first_verdict, loop_count, gen_count, eval_count, fb_consumed,
                   gen_failed>>
    /\ UNCHANGED others

final_output_early ==
    [title         |-> title,
     sections      |-> sections_content,
     evaluations   |-> evaluations,
     total_score   |-> total_score,
     iterations    |-> iteration,
     threshold_met |-> (iteration < MAX_ITERATIONS)]

\* the result dictionary
final_output ==
    [title         |-> title,
     sections      |-> sections_content,
     evaluations   |-> evaluations,
     total_score   |-> total_score,
     iterations    |-> iteration,
     threshold_met |-> (total_score >= SCORE_THRESHOLD)]

\* Step 4: write the LaTeX file and the JSON file, return final_output
Finalize ==
    /\ pc = "finalize"
    /\ files' = files \cup {"paper.tex", "paper_final.json"}
    /\ returned' = Append(returned, final_output)
    /\ pc' = "done"
    /\ UNCHANGED <<entry, request, input_data, locals, error, history>>
    /\ UNCHANGED others

Next ==
    \/ PrepareInput
    \/ RunWorkflowStart
    \/ Generate
    \/ Evaluate
    \/ Decide
    \/ Finalize

Spec == Init /\ [][Next]_vars

\* every step of a run is taken once it can be: the run is one thread
FairSpec == Spec /\ WF_vars(Next)

(* ---------------------------------------------------------------------- *)
(* Properties                                                              *)
(* ---------------------------------------------------------------------- *)
\* the feedback map {section -> feedback of its evaluation} of an evaluation
IsFeedbackMapOf(fb, evals) ==
    /\ DictKeys(fb) = DictKeys(evals)
    /\ Len(fb) = Cardinality(DictKeys(fb))
    /\ \A s \in DictKeys(evals) :
          DictGet(fb, s, EmptyText) = DictGet(evals, s, [feedback |-> EmptyText]).feedback

C1_Bounded ==
    /\ loop_count <= MAX_ITERATIONS
    /\ Len(returned) <= 1
    /\ pc = "done" =>
          /\ Len(returned) = 1
          /\ returned[1].iterations = loop_count
          /\ 1 <= returned[1].iterations
          /\ returned[1].iterations <= MAX_ITERATIONS
    /\ pc # "done" => returned = << >>

\* C1: a run whose section list is not empty reaches Done, exactly once,
\* after at most MAX_ITERATIONS loop bodies, and reports an iteration count
\* in 1..MAX_ITERATIONS, whatever the scores and whatever threshold the
\* request names.
C1_Terminates ==
    /\ []C1_Bounded
    /\ (pc = "loop") ~> (pc = "done")

\* the budget runs out under a threshold the scores never reach
C1_Witness ==
    /\ pc = "done"
    /\ request.threshold = 1000
    /\ returned[1].iterations = MAX_ITERATIONS
    /\ returned[1].total_score < SCORE_THRESHOLD

\* C2: the step after an evaluation goes to Finalizing exactly when
\* total_score >= SCORE_THRESHOLD or iteration >= MAX_ITERATIONS; otherwise it
\* goes back to the loop with the feedback map of the evaluation just made.
C2_Deciding ==
    [][pc = "decide" =>
         /\ (pc' = "finalize") <=>
                (total_score >= SCORE_THRESHOLD \/ iteration >= MAX_ITERATIONS)
         /\ (pc' # "finalize") =>
                /\ pc' = "loop"
                /\ iteration' = iteration
                /\ IsFeedbackMapOf(feedback_dict', last_evals)]_vars

\* an evaluation below the threshold with budget left has sent the run back
\* to the loop with a feedback map of two different feedbacks
C2_Witness ==
    /\ pc = "loop"
    /\ iteration = 1
    /\ Len(feedback_dict) = 2
    /\ feedback_dict[1].v # feedback_dict[2].v
    /\ IsFeedbackMapOf(feedback_dict, last_evals)

\* C3: the loop tests the threshold and the iteration budget of the request:
\* threshold 0 with sections Abstract, Introduction and a generation service
\* that always answers gives one iteration and thresholdMet, and a run never
\* makes more iterations than the request's max_iterations.
C3_RequestParameters ==
    (entry = "api" /\ pc = "done") =>
        /\ ( /\ request.threshold = 0
             /\ request.sections = <<"Abstract", "Introduction">>
             /\ ~gen_failed )
           => (returned[1].iterations = 1 /\ returned[1].threshold_met)
        /\ returned[1].iterations <= request.max_iterations

\* C4: when the total of the first iteration reaches the threshold, there is
\* exactly one iteration, no feedback map is derived and no generation call
\* receives a non-empty feedback.
C4_FirstPassSuffices ==
    first_verdict = "met" =>
        /\ iteration = 1
        /\ loop_count = 1
        /\ fb_derived = 0
        /\ ~fb_consumed
        /\ feedback_dict = EmptyDict
        /\ \A i \in 1..Len(gen_calls) : gen_calls[i].prompt = EmptyText
        /\ pc = "done" => returned[1].iterations = 1

\* a two-section run ended after a first total that just reaches the threshold
C4_Witness ==
    /\ pc = "done"
    /\ first_verdict = "met"
    /\ total_score = SCORE_THRESHOLD
    /\ Len(eval_calls) = 2
    /\ returned[1].iterations = 1

\* the initial feedback the caller supplied
initial_feedback ==
    IF "feedback" \in DOMAIN input_data THEN input_data.feedback ELSE EmptyText

\* C5: every generation call of iteration 1 receives the initial feedback of
\* the request, which is the empty feedback when the caller supplied none.
C5_InitialFeedback ==
    (pc = "evaluate" /\ iteration = 1) =>
        /\ Len(gen_calls) = Len(sections)
        /\ \A i \in 1..Len(gen_calls) : gen_calls[i].feedback = initial_feedback

\* C6: from iteration 2 on, the feedback passed to the generation of a section
\* is the feedback of that section's evaluation of the previous iteration.
C6_FeedbackPropagation ==
    (pc = "evaluate" /\ iteration >= 2) =>
        /\ Len(gen_calls) = Len(sections)
        /\ \A i \in 1..Len(gen_calls) :
              /\ gen_calls[i].section = sections[i]
              /\ DictHas(last_evals, sections[i])
              /\ gen_calls[i].feedback =
                    DictGet(last_evals, sections[i], [feedback |-> EmptyText]).feedback
              /\ gen_calls[i].prompt = feedback_prompt(gen_calls[i].feedback)

\* third iteration, two sections whose previous evaluations gave different
\* feedback
C6_Witness ==
    /\ pc = "evaluate"
    /\ iteration = 3
    /\ Len(gen_calls) = 2
    /\ gen_calls[1].section # gen_calls[2].section
    /\ gen_calls[1].feedback # gen_calls[2].feedback
    /\ gen_calls[1].feedback # EmptyText

\* sum of the totals the evaluate_section calls of a pass returned
RECURSIVE SumOfCallTotals(_)
SumOfCallTotals(calls) ==
    IF calls = << >>
    THEN 0
    ELSE Head(calls).result.val.total + SumOfCallTotals(Tail(calls))

\* C7: thresholdMet of the result is true exactly when the reported total, the
\* paper total of the last iteration performed, is >= SCORE_THRESHOLD; a run
\* that used up its budget below the threshold reports false.
C7_ThresholdMet ==
    pc = "done" =>
        /\ returned[1].total_score = SumOfCallTotals(eval_calls)
        /\ returned[1].threshold_met <=> (returned[1].total_score >= SCORE_THRESHOLD)
        /\ (returned[1].iterations = MAX_ITERATIONS
              /\ returned[1].total_score < SCORE_THRESHOLD)
           => ~returned[1].threshold_met

\* the threshold is met by the evaluation of the last iteration of the budget
C7_Witness ==
    /\ pc = "done"
    /\ returned[1].iterations = MAX_ITERATIONS
    /\ returned[1].total_score >= SCORE_THRESHOLD
    /\ returned[1].threshold_met

\* the section list of the input is empty or absent
sections_missing ==
    \/ "sections" \notin DOMAIN input_data
    \/ input_data.sections = << >>

\* C8: with an empty or absent section list run_workflow fails with the
\* configuration error before any iteration: no generation call, no
\* evaluation call, no output file, no result.
C8_EmptySections ==
    (pc \notin {"task", "start"} /\ sections_missing) =>
        /\ pc = "error"
        /\ error = <<"No sections provided in input data">>
        /\ loop_count = 0
        /\ gen_count = 0
        /\ eval_count = 0
        /\ files = {}
        /\ returned = << >>

\* a direct call without a "sections" key has been rejected
C8_Witness ==
    /\ pc = "error"
    /\ "sections" \notin DOMAIN input_data
    /\ gen_count = 0

Range(f) == {f[i] : i \in DOMAIN f}

\* C9: a failing generation or scoring call never aborts the run: the section
\* gets the error sentinel text, or the all-zero evaluation whose feedback
\* names the failure; every section of the pass is still generated and
\* evaluated; the run ends with a result that covers every section.
C9_SectionFailuresAbsorbed ==
    /\ pc = "error" => (sections = << >> /\ loop_count = 0)
    /\ pc \in {"evaluate", "decide", "finalize", "done"} =>
          /\ Len(gen_calls) = Len(sections)
          /\ DictKeys(sections_content) = Range(sections)
          /\ \A i \in 1..Len(gen_calls) :
                (/\ ~gen_calls[i].resp.ok
                 /\ \A j \in (i + 1)..Len(gen_calls) :
                       gen_calls[j].section # gen_calls[i].section)
                => DictGet(sections_content, gen_calls[i].section, EmptyText)
                     = <<"[Error generating content: ">>
                          \o gen_calls[i].resp.text \o <<"]">>
    /\ pc \in {"decide", "finalize", "done"} =>
          /\ Len(eval_calls) = Len(sections_content)
          /\ DictKeys(evaluations) = Range(sections)
          /\ \A i \in 1..Len(eval_calls) :
                ~eval_calls[i].resp.ok =>
                    DictGet(evaluations, eval_calls[i].section, << >>)
                      = [relevance |-> 0, coherence |-> 0, factuality |-> 0,
                         readability |-> 0, total |-> 0,
                         feedback |-> <<"Evaluation error: ">>
                                         \o eval_calls[i].resp.text]
    /\ pc = "done" =>
          /\ Len(returned) = 1
          /\ DictKeys(returned[1].sections) = Range(sections)
          /\ DictKeys(returned[1].evaluations) = Range(sections)

\* a run ended normally although, in its last pass, the generation of the
\* first section and the evaluation of the second failed
C9_Witness ==
    /\ pc = "done"
    /\ Len(gen_calls) = 2
    /\ Len(eval_calls) = 2
    /\ ~gen_calls[1].resp.ok
    /\ gen_calls[2].resp.ok
    /\ eval_calls[1].resp.ok
    /\ ~eval_calls[2].resp.ok

\* C10: after each evaluation the paper total is the sum of the totals of the
\* section evaluations made in that iteration, one per section, and nothing
\* of an earlier iteration.
C10_PaperTotal ==
    pc \in {"decide", "finalize", "done"} =>
        /\ Len(eval_calls) = Len(sections_content)
        /\ \A i \in 1..Len(eval_calls) :
              /\ eval_calls[i].section = sections_content[i].k
              /\ eval_calls[i].content = sections_content[i].v
              /\ evaluations[i] = [k |-> eval_calls[i].section,
                                   v |-> eval_calls[i].result.val]
        /\ total_score = SumOfCallTotals(eval_calls)

\* a second iteration whose total is positive after a first iteration that
\* scored one section above zero (the feedback it gave is still in the map)
C10_Witness ==
    /\ pc = "decide"
    /\ iteration = 2
    /\ \E i \in 1..Len(feedback_dict) : feedback_dict[i].v = <<"Cite", " ", "sources">>
    /\ total_score > 0
    /\ total_score = SumOfCallTotals(eval_calls)

(* ---------------------------------------------------------------------- *)
(* parse_evaluation called on its own, on every text of a bounded set      *)
(* ---------------------------------------------------------------------- *)
\* '\n'.join(lines)
RECURSIVE JoinLines(_)
JoinLines(lines) ==
    IF lines = << >> THEN EmptyText
    ELSE IF Len(lines) = 1 THEN lines[1]
    ELSE lines[1] \o <<"\n">> \o JoinLines(Tail(lines))

\* the texts of at most n lines, each line one of kinds
LineTexts(kinds, n) ==
    {JoinLines(ls) : ls \in UNION {[1..k -> kinds] : k \in 0..n}}

\* lines a scoring answer can hold: labelled scores in several spellings,
\* a sub-score above the scale, labels without a number, a number without a
\* label, plain words
ScoreLines ==
    { <<"RELEVANCE:", " ", "8">>,
      <<"Coherence:", "10">>,
      <<"FACTUALITY:", " ", "n/a">>,
      <<"Factuality:", " ", "40">>,
      <<"readability:", " ", "8">>,
      <<"TOTAL:", " ", "40">>,
      <<"total:", " ", "0">>,
      <<"TOTAL:", " ", "high">>,
      <<"FEEDBACK:", " ", "Good">>,
      <<"Nothing", " ", "to", " ", "score">>,
      <<"Score", " ", "8">> }

\* the workflow is not running
NoRun ==
    /\ entry = "none"
    /\ request = NoRequest
    /\ input_data = NoInput
    /\ pc = "idle"
    /\ title = ""
    /\ sections = << >>
    /\ sections_content = EmptyDict
    /\ feedback_dict = EmptyDict
    /\ iteration = 0
    /\ total_score = 0
    /\ evaluations = EmptyDict
    /\ returned = << >>
    /\ error = EmptyText
    /\ files = {}
    /\ gen_calls = << >>
    /\ eval_calls = << >>
    /\ last_evals = EmptyDict
    /\ first_verdict = "none"
    /\ loop_count = 0
    /\ gen_count = 0
    /\ eval_count = 0
    /\ fb_derived = 0
    /\ fb_consumed = FALSE
    /\ gen_failed = FALSE

run == <<entry, request, input_data, pc, locals, returned, error, files, history>>

ParseInit ==
    /\ NoRun
    /\ NoConversion
    /\ NoServer
    /\ evaluation_text \in LineTexts(ScoreLines, MaxLines)
    /\ parsed = << >>

\* one call of parse_evaluation
ParseEvaluation ==
    /\ parsed = << >>
    /\ parsed' = <<parse_evaluation(evaluation_text)>>
    /\ UNCHANGED <<run, evaluation_text, converter, server>>

ParseNext ==
    \/ ParseEvaluation

ParseSpec == ParseInit /\ [][ParseNext]_vars

\* no token of the text spells the label
LabelAbsent(text, label) ==
    \A i \in 1..Len(text) : text[i] \notin LabelForms(label)

\* the positions of the numbers that follow a spelling of the label, with
\* nothing but whitespace between
ValuesOf(text, label) ==
    {j \in 1..Len(text) :
        /\ text[j] \in DigitTokens
        /\ \E i \in 1..(j - 1) :
              /\ text[i] \in LabelForms(label)
              /\ \A k \in (i + 1)..(j - 1) : text[k] \in Whitespace}

\* the first number the text gives under the label
ExplicitValue(text, label) ==
    LET j == CHOOSE x \in ValuesOf(text, label) :
                 \A y \in ValuesOf(text, label) : x <= y
    IN  IntOf(text[j])

\* C11: in the result of parse_evaluation a sub-score whose label is missing
\* from the text is 0; the total is the number the text gives under TOTAL,
\* whatever the sub-scores add up to, and the sum of the four parsed
\* sub-scores when the text gives no number under TOTAL.
C11_ParsedScores ==
    parsed # << >> =>
        LET r == parsed[1]
            sum == r.relevance + r.coherence + r.factuality + r.readability
        IN  /\ LabelAbsent(evaluation_text, "RELEVANCE:")   => r.relevance = 0
            /\ LabelAbsent(evaluation_text, "COHERENCE:")   => r.coherence = 0
            /\ LabelAbsent(evaluation_text, "FACTUALITY:")  => r.factuality = 0
            /\ LabelAbsent(evaluation_text, "READABILITY:") => r.readability = 0
            /\ ValuesOf(evaluation_text, "TOTAL:") # {} =>
                   r.total = ExplicitValue(evaluation_text, "TOTAL:")
            /\ ValuesOf(evaluation_text, "TOTAL:") = {} => r.total = sum

\* an explicit total that disagrees with the sum, beside a missing label
C11_Witness ==
    /\ parsed # << >>
    /\ LabelAbsent(evaluation_text, "COHERENCE:")
    /\ ValuesOf(evaluation_text, "TOTAL:") # {}
    /\ parsed[1].relevance = 8
    /\ parsed[1].total = 40

\* none of the six labels occurs in the text
LabelFree(text) ==
    \A label \in {"RELEVANCE:", "COHERENCE:", "FACTUALITY:", "READABILITY:",
                  "TOTAL:", "FEEDBACK:"} : LabelAbsent(text, label)

AllZero(r) ==
    /\ r.relevance = 0
    /\ r.coherence = 0
    /\ r.factuality = 0
    /\ r.readability = 0
    /\ r.total = 0

\* C12 as stated: for a text that holds none of the labels parse_evaluation
\* returns, without raising, four sub-scores of 0, a total of 0 and a
\* feedback equal to the text itself.
C12_MalformedKeepsText ==
    (parsed # << >> /\ LabelFree(evaluation_text)) =>
        /\ AllZero(parsed[1])
        /\ parsed[1].feedback = evaluation_text

\* C12, amended: for a text that holds none of the labels parse_evaluation
\* returns, without raising, four sub-scores of 0, a total of 0 and the
\* empty feedback.
C12_MalformedEmptyFeedback ==
    (parsed # << >> /\ LabelFree(evaluation_text)) =>
        /\ AllZero(parsed[1])
        /\ parsed[1].feedback = EmptyText

\* a text of words and a number, no label: parsed to zeros and no feedback
C12_Witness ==
    /\ parsed # << >>
    /\ LabelFree(evaluation_text)
    /\ \E i \in 1..Len(evaluation_text) : evaluation_text[i] \in DigitTokens
    /\ AllZero(parsed[1])
    /\ parsed[1].feedback = EmptyText

(* ---------------------------------------------------------------------- *)
(* latex_converter.py.  A text is a sequence of tokens: words, one space   *)
(* " ", the line break "\n", Markdown markers ("**", "*", "#", "-", ...),  *)
(* bracketed reference numbers ("[1]") and LaTeX commands.                 *)
(* ---------------------------------------------------------------------- *)
\* str.lower() of a word
Lower(word) ==
    CASE word \in {"Abstract", "ABSTRACT", "abstract"}             -> "abstract"
      [] word \in {"References", "REFERENCES", "references"}       -> "references"
      [] word \in {"Bibliography", "BIBLIOGRAPHY", "bibliography"} -> "bibliography"
      [] word \in {"Introduction", "INTRODUCTION", "introduction"} -> "introduction"
      [] word \in {"Methods", "METHODS", "methods"}                -> "methods"
      [] OTHER -> word

LowerText(text) == [i \in 1..Len(text) |-> Lower(text[i])]

\* the first position at or after i that holds tok, 0 if none
RECURSIVE IndexOf(_, _, _)
IndexOf(text, tok, i) ==
    IF i > Len(text) THEN 0
    ELSE IF text[i] = tok THEN i
    ELSE IndexOf(text, tok, i + 1)

\* str.split('\n')
RECURSIVE SplitLines(_)
SplitLines(text) ==
    LET i == IndexOf(text, "\n", 1)
    IN  IF i = 0 THEN <<text>>
        ELSE <<SubSeq(text, 1, i - 1)>> \o SplitLines(SubSeq(text, i + 1, Len(text)))

\* the first position at or after i where a blank line break "\n\n" starts
RECURSIVE FirstBreak(_, _)
FirstBreak(text, i) ==
    IF i >= Len(text) THEN 0
    ELSE IF text[i] = "\n" /\ text[i + 1] = "\n" THEN i
    ELSE FirstBreak(text, i + 1)

\* str.split('\n\n')
RECURSIVE SplitParagraphs(_)
SplitParagraphs(text) ==
    LET i == FirstBreak(text, 1)
    IN  IF i = 0 THEN <<text>>
        ELSE <<SubSeq(text, 1, i - 1)>>
             \o SplitParagraphs(SubSeq(text, i + 2, Len(text)))

\* '\n\n'.join(paragraphs)
RECURSIVE JoinParagraphs(_)
JoinParagraphs(paragraphs) ==
    IF paragraphs = << >> THEN EmptyText
    ELSE IF Len(paragraphs) = 1 THEN paragraphs[1]
    ELSE paragraphs[1] \o <<"\n", "\n">> \o JoinParagraphs(Tail(paragraphs))

\* re.sub(r' {2,}', ' ', text), which is also re.sub(r' +', ' ', text)
RECURSIVE CollapseSpaces(_)
CollapseSpaces(text) ==
    IF text = << >> THEN << >>
    ELSE IF Len(text) >= 2 /\ text[1] = " " /\ text[2] = " "
    THEN CollapseSpaces(Tail(text))
    ELSE <<Head(text)>> \o CollapseSpaces(Tail(text))

\* re.sub(r'\n{3,}', '\n\n', text)
RECURSIVE CollapseNewlines(_)
CollapseNewlines(text) ==
    IF text = << >> THEN << >>
    ELSE IF Len(text) >= 3 /\ text[1] = "\n" /\ text[2] = "\n" /\ text[3] = "\n"
    THEN CollapseNewlines(Tail(text))
    ELSE <<Head(text)>> \o CollapseNewlines(Tail(text))

\* the closing marker of M(.+?)M for an opening marker at position 1: the
\* first marker at or after position j with no line break before it, 0 if none
RECURSIVE Closing(_, _, _)
Closing(text, marker, j) ==
    IF j > Len(text) \/ text[j - 1] = "\n" THEN 0
    ELSE IF text[j] = marker THEN j
    ELSE Closing(text, marker, j + 1)

\* re.sub(r'M(.+?)M', r'\1', text) for an emphasis marker M
RECURSIVE strip_emphasis(_, _)
strip_emphasis(text, marker) ==
    IF text = << >> THEN << >>
    ELSE LET j == IF Head(text) = marker THEN Closing(text, marker, 3) ELSE 0
         IN  IF j # 0
             THEN SubSeq(text, 2, j - 1)
                  \o strip_emphasis(SubSeq(text, j + 1, Len(text)), marker)
             ELSE <<Head(text)>> \o strip_emphasis(Tail(text), marker)

\* the last position of the line that position k is on
RECURSIVE LineEnd(_, _)
LineEnd(text, k) ==
    IF k < Len(text) /\ text[k + 1] # "\n" THEN LineEnd(text, k + 1) ELSE k

\* \s+(.+)$ after a header marker at position 1: where the caption starts.
\* \s+ is greedy and (.+) takes no line break, so the caption starts at the
\* last position that only whitespace separates from the marker and that
\* holds no line break; 0 if there is none
CaptionStart(text) ==
    LET starts == {k \in 3..Len(text) :
                      /\ text[k] # "\n"
                      /\ \A m \in 2..(k - 1) : text[m] \in Whitespace}
    IN  IF starts = {} THEN 0
        ELSE CHOOSE k \in starts : \A m \in starts : m <= k

\* re.sub(r'^MARKER\s+(.+)$', r'\COMMAND{\1}', text, flags=re.MULTILINE);
\* bol: the text starts at the beginning of a line
RECURSIVE convert_headers(_, _, _, _)
convert_headers(text, marker, command, bol) ==
    IF text = << >> THEN << >>
    ELSE LET k == IF bol /\ Head(text) = marker THEN CaptionStart(text) ELSE 0
         IN  IF k # 0
             THEN <<command>> \o SubSeq(text, k, LineEnd(text, k)) \o <<"}">>
                  \o convert_headers(SubSeq(text, LineEnd(text, k) + 1, Len(text)),
                                     marker, command, FALSE)
             ELSE <<Head(text)>>
                  \o convert_headers(Tail(text), marker, command, Head(text) = "\n")

BulletMarkers == {"*", "-", "+"}

\* re.match(r'^\s*[\*\-\+]\s+', line)
is_bullet(line) ==
    LET j == SkipWhitespace(line, 1)
    IN  /\ j < Len(line)
        /\ line[j] \in BulletMarkers
        /\ line[j + 1] \in Whitespace

\* re.sub(r'^\s*[\*\-\+]\s+', r'\\item ', line) on a bullet line
bullet_item(line) ==
    <<"\\item", " ">>
    \o SubSeq(line, SkipWhitespace(line, SkipWhitespace(line, 1) + 1), Len(line))

closes_list_blank(line) == TRUE

\* "line.strip()" in "if in_list and line.strip()"
closes_list(line) == Strip(line) # EmptyText

\* the loop over the lines, from line i on
RECURSIVE bullet_loop(_, _, _)
bullet_loop(lines, i, in_list) ==
    IF i > Len(lines)
    THEN IF in_list THEN << <<"\\end{itemize}">> >> ELSE << >>
    ELSE IF is_bullet(lines[i])
    THEN (IF ~in_list THEN << <<"\\begin{itemize}">> >> ELSE << >>)
         \o <<bullet_item(lines[i])>>
         \o bullet_loop(lines, i + 1, TRUE)
    ELSE IF in_list /\ closes_list(lines[i])
    THEN << <<"\\end{itemize}">>, lines[i] >> \o bullet_loop(lines, i + 1, FALSE)
    ELSE <<lines[i]>> \o bullet_loop(lines, i + 1, in_list)

\* the text when the loop over the lines begins: emphasis markers stripped,
\* leaked headers turned into heading commands
before_lists(text) ==
    LET bold    == strip_emphasis(strip_emphasis(text, "**"), "__")
        italic  == strip_emphasis(strip_emphasis(bold, "*"), "_")
        h3      == convert_headers(italic, "###", "\\subsubsection{", TRUE)
        h2      == convert_headers(h3, "##", "\\subsection{", TRUE)
    IN  convert_headers(h2, "#", "\\section{", TRUE)

\* clean_markdown_formatting
clean_markdown_formatting(text) ==
    LET cleaned_lines == bullet_loop(SplitLines(before_lists(text)), 1, FALSE)
    IN  Strip(CollapseSpaces(CollapseNewlines(JoinLines(cleaned_lines))))

\* re.sub(rf'\\COMMAND\{{{section_pattern}\}}\s*\n*', '', content,
\* flags=re.IGNORECASE): drop the headings that repeat the section name,
\* with the whitespace after them
RECURSIVE remove_heading(_, _, _)
remove_heading(text, command, section_name) ==
    IF text = << >> THEN << >>
    ELSE IF /\ Len(text) >= 3
            /\ text[1] = command
            /\ Lower(text[2]) = Lower(section_name)
            /\ text[3] = "}"
    THEN remove_heading(SubSeq(text, SkipWhitespace(text, 4), Len(text)),
                        command, section_name)
    ELSE <<Head(text)>> \o remove_heading(Tail(text), command, section_name)

SectionCommands == {"\\section{", "\\subsection{", "\\subsubsection{"}

ListCommands == {"\\begin{itemize}", "\\end{itemize}", "\\item"}

\* para.startswith('\\')
starts_with_backslash(para) ==
    /\ para # EmptyText
    /\ Head(para) \in SectionCommands \cup ListCommands
                      \cup {"\\vspace{0.5em}", "\\noindent"}

\* para.replace('\n', ' ')
unwrap(para) ==
    [i \in 1..Len(para) |-> IF para[i] = "\n" THEN " " ELSE para[i]]

\* '\n'.join(line.strip() for line in para.split('\n'))
strip_lines(para) ==
    LET lines == SplitLines(para)
    IN  JoinLines([i \in 1..Len(lines) |-> Strip(lines[i])])

\* the body of "for para in paragraphs": what one paragraph adds to
\* formatted_paragraphs
format_paragraph(para, section_name) ==
    LET para_stripped == Strip(para)
        reflowed == IF \A i \in 1..Len(para) : para[i] \notin ListCommands
                    THEN unwrap(para) ELSE para
        normal   == Strip(strip_lines(CollapseSpaces(reflowed)))
    IN  IF para_stripped = EmptyText THEN << >>
        ELSE IF LowerText(para_stripped) = <<Lower(section_name)>> THEN << >>
        ELSE IF Head(para_stripped) \in SectionCommands THEN <<para_stripped>>
        ELSE IF normal # EmptyText THEN <<normal>>
        ELSE << >>

RECURSIVE format_paragraphs(_, _)
format_paragraphs(paragraphs, section_name) ==
    IF paragraphs = << >> THEN << >>
    ELSE format_paragraph(Head(paragraphs), section_name)
         \o format_paragraphs(Tail(paragraphs), section_name)

\* the body of "for i, para in enumerate(formatted_paragraphs)"
indent_paragraph(i, para) ==
    IF para # EmptyText /\ ~starts_with_backslash(para)
    THEN IF i = 1 THEN para
         ELSE <<"\\vspace{0.5em}", "\n", "\\noindent", " ">> \o para
    ELSE para

\* the content of a section as format_section lays it out before it picks
\* the kind of block
section_body(section_name, content) ==
    LET cleaned == clean_markdown_formatting(content)
        unique  == remove_heading(remove_heading(cleaned, "\\subsection{",
                                                 section_name),
                                  "\\subsubsection{", section_name)
        formatted_paragraphs ==
            format_paragraphs(SplitParagraphs(unique), section_name)
        formatted_content ==
            [i \in 1..Len(formatted_paragraphs) |->
                indent_paragraph(i, formatted_paragraphs[i])]
    IN  CollapseNewlines(CollapseSpaces(JoinParagraphs(formatted_content)))

ReferenceNumbers == {"[1]", "[2]", "[3]"}

\* the first position at or after i that holds a bracketed number,
\* Len(text) + 1 if none
RECURSIVE NextNumber(_, _)
NextNumber(text, i) ==
    IF i > Len(text) \/ text[i] \in ReferenceNumbers THEN i
    ELSE NextNumber(text, i + 1)

\* ' '.join(ref_text.split())
RECURSIVE normalize_whitespace(_)
normalize_whitespace(text) ==
    LET t == LStrip(text)
        e == IF t = << >> THEN 0
             ELSE IF \E i \in 1..Len(t) : t[i] \in Whitespace
             THEN (CHOOSE i \in 1..Len(t) :
                      /\ t[i] \in Whitespace
                      /\ \A k \in 1..(i - 1) : t[k] \notin Whitespace) - 1
             ELSE Len(t)
        rest == IF t = << >> THEN << >>
                ELSE normalize_whitespace(SubSeq(t, e + 1, Len(t)))
    IN  IF t = << >> THEN << >>
        ELSE IF rest = << >> THEN SubSeq(t, 1, e)
        ELSE SubSeq(t, 1, e) \o <<" ">> \o rest

\* re.split(r'\[(\d+)\]\s*', content) and the loop over its parts: the
\* reference texts that follow the bracketed numbers from position i on
RECURSIVE ref_entries(_, _)
ref_entries(content, i) ==
    LET n == NextNumber(content, i)
    IN  IF n > Len(content) THEN << >>
        ELSE LET start    == SkipWhitespace(content, n + 1)
                 stop     == NextNumber(content, start)
                 ref_text == Strip(SubSeq(content, start, stop - 1))
             IN  (IF ref_text # EmptyText
                  THEN <<normalize_whitespace(ref_text)>> ELSE << >>)
                 \o ref_entries(content, stop)

\* the "\item {ref}\n" lines
RECURSIVE item_lines(_)
item_lines(refs) ==
    IF refs = << >> THEN << >>
    ELSE <<"\\item", " ">> \o Head(refs) \o <<"\n">> \o item_lines(Tail(refs))

\* format_section
format_section(section_name, content) ==
    LET body == section_body(section_name, content)
        refs == ref_entries(body, 1)
    IN  IF Lower(section_name) = "abstract"
        THEN <<"\\begin{abstract}", "\n">> \o body
             \o <<"\n", "\\end{abstract}", "\n">>
        ELSE IF Lower(section_name) \in {"references", "bibliography"}
                /\ refs # << >>
        THEN <<"\\section{", section_name, "}", "\n", "\\begin{enumerate}", "\n">>
             \o item_lines(refs) \o <<"\\end{enumerate}", "\n">>
        ELSE <<"\\section{", section_name, "}", "\n">> \o body \o <<"\n">>

\* self.packages
packages ==
    << <<"\\usepackage[utf8]{inputenc}">>,
       <<"\\usepackage[T1]{fontenc}">>,
       <<"\\usepackage{amsmath}">>,
       <<"\\usepackage{graphicx}">>,
       <<"\\usepackage{hyperref}">>,
       <<"\\usepackage{cite}">>,
       <<"\\usepackage{geometry}">>,
       <<"\\geometry{a4paper, margin=1in}">>,
       <<"\\usepackage{setspace}">>,
       <<"\\setstretch{1.15}">>,
       <<"\\usepackage{titlesec}">>,
       <<"% Format section titles">>,
       <<"\\titleformat{\\section}{\\normalfont\\Large\\bfseries}{\\thesection}{1em}{}">>,
       <<"\\titleformat{\\subsection}{\\normalfont\\large\\bfseries}{\\thesubsection}{1em}{}">>,
       <<"\\titleformat{\\subsubsection}{\\normalfont\\normalsize\\bfseries}{\\thesubsubsection}{1em}{}">> >>

\* the lines generate_latex starts latex_content with, up to \maketitle
title_block(paper_title) ==
    << <<"\\documentclass{article}">>, << >>, <<"% Packages">> >>
    \o packages
    \o << << >>,
          <<"% Document metadata">>,
          <<"\\title{", paper_title, "}">>,
          <<"\\author{", "Author Name", "}">>,
          <<"\\date{", "\\today", "}">>,
          << >>,
          <<"\\begin{document}">>,
          << >>,
          <<"\\maketitle">>,
          << >> >>

\* the first key k with k.lower() == 'abstract': its position, 0 if none
RECURSIVE abstract_key(_, _)
abstract_key_missed(d, i) == 0

abstract_key(d, i) ==
    IF i > Len(d) THEN 0
    ELSE IF Lower(d[i].k) = "abstract" THEN i
    ELSE abstract_key(d, i + 1)

\* remaining_sections.pop(key at position i)
dict_pop(d, i) ==
    SubSeq(d, 1, i - 1) \o SubSeq(d, i + 1, Len(d))

\* the loop over remaining_sections.items()
RECURSIVE remaining_blocks(_)
remaining_blocks(d) ==
    IF d = << >> THEN << >>
    ELSE (IF Lower(d[1].k) = "introduction" THEN << <<"\\clearpage">> >> ELSE << >>)
         \o <<format_section(d[1].k, d[1].v)>>
         \o remaining_blocks(Tail(d))

\* generate_latex
generate_latex(paper_title, content_dict) ==
    LET a == abstract_key(content_dict, 1)
        abstract_block ==
            IF a # 0 THEN <<format_section("Abstract", content_dict[a].v)>>
            ELSE << >>
        remaining_sections ==
            IF a # 0 THEN dict_pop(content_dict, a) ELSE content_dict
    IN  JoinLines(title_block(paper_title) \o abstract_block
                  \o remaining_blocks(remaining_sections)
                  \o << <<"\\end{document}">> >>)

(* ---------------------------------------------------------------------- *)
(* The converter called on its own, on every text of a bounded set         *)
(* ---------------------------------------------------------------------- *)
\* lines a section text can hold: a blank line, bullets, text with bold
\* words, a leaked header, numbered references, a starred line with italics
MarkdownLines ==
    { << >>,
      <<"-", " ", "Alpha">>,
      <<"*", " ", "Beta">>,
      <<"Plain", " ", "**", "text", "**">>,
      <<"##", " ", "Methods">>,
      <<"[1]", " ", "A.", " ", "One.">>,
      <<"[2]", " ", " ", "B.", " ", "Two.">>,
      <<"*", " ", "Gamma", " ", "*", "it", "*">> }

FormatNames == {"Methods", "References", "BIBLIOGRAPHY", "abstract"}

CleanInit ==
    /\ NoRun
    /\ NoParse
    /\ NoServer
    /\ arg_section_name = ""
    /\ arg_content \in LineTexts(MarkdownLines, MaxLines)
    /\ cleaned_text = << >>
    /\ formatted_text = << >>
    /\ arg_sections = EmptyDict
    /\ latex_text = << >>

\* one call of clean_markdown_formatting
CleanMarkdown ==
    /\ cleaned_text = << >>
    /\ cleaned_text' = <<clean_markdown_formatting(arg_content)>>
    /\ UNCHANGED <<run, parser, server, arg_section_name, arg_content, formatted_text,
                   arg_sections, latex_text>>

CleanNext ==
    \/ CleanMarkdown

CleanSpec == CleanInit /\ [][CleanNext]_vars

FormatInit ==
    /\ NoRun
    /\ NoParse
    /\ NoServer
    /\ arg_section_name \in FormatNames
    /\ arg_content \in LineTexts(MarkdownLines, MaxLines)
    /\ cleaned_text = << >>
    /\ formatted_text = << >>
    /\ arg_sections = EmptyDict
    /\ latex_text = << >>

\* one call of format_section
FormatSection ==
    /\ formatted_text = << >>
    /\ formatted_text' = <<format_section(arg_section_name, arg_content)>>
    /\ UNCHANGED <<run, parser, server, arg_section_name, arg_content, cleaned_text,
                   arg_sections, latex_text>>

FormatNext ==
    \/ FormatSection

FormatSpec == FormatInit /\ [][FormatNext]_vars

LatexKeys == {"Abstract", "ABSTRACT", "Introduction", "Methods", "References"}

LatexContents == { <<"First", " ", "text">>, <<"[1]", " ", "Second">> }

\* the dictionaries of at most MaxKeys sections: the keys of a dict differ
SectionDicts ==
    {d \in UNION {[1..n -> [k : LatexKeys, v : LatexContents]] : n \in 0..MaxKeys} :
        \A i, j \in 1..Len(d) : d[i].k = d[j].k => i = j}

LatexInit ==
    /\ NoRun
    /\ NoParse
    /\ NoServer
    /\ arg_section_name = ""
    /\ arg_content = EmptyText
    /\ cleaned_text = << >>
    /\ formatted_text = << >>
    /\ arg_sections \in SectionDicts
    /\ latex_text = << >>

\* one call of generate_latex
GenerateLatex ==
    /\ latex_text = << >>
    /\ latex_text' = <<generate_latex("T", arg_sections)>>
    /\ UNCHANGED <<run, parser, server, arg_section_name, arg_content, cleaned_text,
                   formatted_text, arg_sections>>

LatexNext ==
    \/ GenerateLatex

LatexSpec == LatexInit /\ [][LatexNext]_vars

(* ---------------------------------------------------------------------- *)
(* Properties of the converter                                             *)
(* ---------------------------------------------------------------------- *)
\* how often tok occurs in text
RECURSIVE Count(_, _)
Count(text, tok) ==
    IF text = << >> THEN 0
    ELSE (IF Head(text) = tok THEN 1 ELSE 0) + Count(Tail(text), tok)

\* the blocks of a document in order: "\\begin{abstract}" for an abstract
\* block, the section name for a \section heading
Openers(text) ==
    LET at == SelectSeq([i \in 1..Len(text) |-> i],
                        LAMBDA i : text[i] \in {"\\begin{abstract}", "\\section{"})
    IN  [j \in 1..Len(at) |->
            IF text[at[j]] = "\\begin{abstract}" THEN "\\begin{abstract}"
            ELSE text[at[j] + 1]]

\* where the first block after the title block starts: after \maketitle and
\* the empty line that follows it
AfterTitle(text) == IndexOf(text, "\\maketitle", 1) + 3

IsAbstractKey(k) == Lower(k) = "abstract"

\* the positions of the dictionary whose key is Abstract under some casing
AbstractPositions(d) == {i \in 1..Len(d) : IsAbstractKey(d[i].k)}

KeysOf(d) == [i \in 1..Len(d) |-> d[i].k]

\* C16 as stated: every section whose key is Abstract under any casing is
\* emitted as an abstract block right after the title block, wherever it
\* stood in the dictionary, and the other sections follow in their order.
C16_AbstractFirst ==
    latex_text # << >> =>
        LET out == latex_text[1]
            d   == arg_sections
        IN  /\ AbstractPositions(d) # {} => out[AfterTitle(out)] = "\\begin{abstract}"
            /\ Openers(out) =
                  [i \in 1..Cardinality(AbstractPositions(d)) |-> "\\begin{abstract}"]
                  \o SelectSeq(KeysOf(d), LAMBDA k : ~IsAbstractKey(k))

\* the opener of the block a section gets where it stands
OpenerOf(k) == IF IsAbstractKey(k) THEN "\\begin{abstract}" ELSE k

\* C16, amended: the first section whose key is Abstract under any casing is
\* emitted as an abstract block right after the title block, wherever it
\* stood in the dictionary; all other sections follow in their order, a
\* further key that is Abstract under another casing among them, as an
\* abstract block at its own place.
C16_FirstAbstractFirst ==
    latex_text # << >> =>
        LET out == latex_text[1]
            d   == arg_sections
            a   == IF AbstractPositions(d) = {} THEN 0
                   ELSE CHOOSE i \in AbstractPositions(d) :
                            \A j \in AbstractPositions(d) : i <= j
            rest == [i \in 1..(Len(d) - (IF a = 0 THEN 0 ELSE 1)) |->
                        IF a # 0 /\ i >= a THEN d[i + 1].k ELSE d[i].k]
            block == format_section("Abstract", d[a].v)
        IN  /\ a # 0 =>
                  SubSeq(out, AfterTitle(out), AfterTitle(out) + Len(block) - 1) = block
            /\ Openers(out) =
                  (IF a # 0 THEN <<"\\begin{abstract}">> ELSE << >>)
                  \o [i \in 1..Len(rest) |-> OpenerOf(rest[i])]

\* an abstract that stood last in a dictionary of three is emitted first
C16_Witness ==
    /\ latex_text # << >>
    /\ Len(arg_sections) = 3
    /\ AbstractPositions(arg_sections) = {3}
    /\ latex_text[1][AfterTitle(latex_text[1])] = "\\begin{abstract}"
    /\ Openers(latex_text[1]) =
          <<"\\begin{abstract}", arg_sections[1].k, arg_sections[2].k>>

IsReferencesName(name) == Lower(name) \in {"references", "bibliography"}

\* a line that is one bracket-numbered entry
IsEntry(line) ==
    /\ line # << >>
    /\ Head(line) \in ReferenceNumbers
    /\ \E i \in 2..Len(line) : line[i] \notin Whitespace
    /\ \A i \in 2..Len(line) : line[i] \notin ReferenceNumbers

\* the text is bracket-numbered entries separated by one or more line breaks
IsEntryList(text) ==
    LET lines == SplitLines(text)
    IN  /\ IsEntry(lines[1])
        /\ IsEntry(lines[Len(lines)])
        /\ \A i \in 1..Len(lines) : IsEntry(lines[i]) \/ lines[i] = << >>

\* words with one space between them
RECURSIVE Spaced(_)
Spaced(words) ==
    IF Len(words) <= 1 THEN words
    ELSE <<Head(words), " ">> \o Spaced(Tail(words))

\* the text of an entry, its number stripped, whitespace-normalized
EntryText(line) ==
    Spaced(SelectSeq(Tail(line), LAMBDA t : t \notin Whitespace))

\* the enumerated items of the entries among the lines
RECURSIVE Items(_)
Items(lines) ==
    IF lines = << >> THEN << >>
    ELSE (IF IsEntry(Head(lines))
          THEN <<"\\item", " ">> \o EntryText(Head(lines)) \o <<"\n">>
          ELSE << >>)
         \o Items(Tail(lines))

\* C17: a References or Bibliography section (any casing) whose content is
\* k >= 1 bracket-numbered entries separated by one or more line breaks is
\* emitted as the section heading and an enumerated list of exactly those k
\* entries, in order, each the entry's own text with the number stripped
\* and the whitespace normalized; without any bracket-numbered entry the
\* section is emitted as a heading and paragraphs, with no enumerated list.
C17_ReferenceList ==
    (formatted_text # << >> /\ IsReferencesName(arg_section_name)) =>
        LET out == formatted_text[1]
            heading == <<"\\section{", arg_section_name, "}", "\n">>
        IN  /\ IsEntryList(arg_content) =>
                  out = heading \o <<"\\begin{enumerate}", "\n">>
                        \o Items(SplitLines(arg_content))
                        \o <<"\\end{enumerate}", "\n">>
            /\ (\A i \in 1..Len(arg_content) : arg_content[i] \notin ReferenceNumbers) =>
                  /\ SubSeq(out, 1, 4) = heading
                  /\ Count(out, "\\begin{enumerate}") = 0

IsBlank(line) == \A i \in 1..Len(line) : line[i] \in Whitespace

\* the lines the list pass of clean_markdown_formatting sees
ListPassLines == SplitLines(before_lists(arg_content))

\* the bullet lines that start a run of contiguous bullet lines
ContiguousRuns(lines) ==
    {i \in 1..Len(lines) :
        is_bullet(lines[i]) /\ (i = 1 \/ ~is_bullet(lines[i - 1]))}

\* the bullet lines that no bullet line precedes with only blank lines between
LooseRuns(lines) ==
    {i \in 1..Len(lines) :
        /\ is_bullet(lines[i])
        /\ \A j \in 1..(i - 1) :
              is_bullet(lines[j]) => \E m \in (j + 1)..(i - 1) :
                                        ~is_bullet(lines[m]) /\ ~IsBlank(lines[m])}

\* \begin{itemize} and \end{itemize} alternate, and the last one closes
RECURSIVE Balanced(_, _)
Balanced(text, open) ==
    IF text = << >> THEN ~open
    ELSE IF Head(text) = "\\begin{itemize}" THEN ~open /\ Balanced(Tail(text), TRUE)
    ELSE IF Head(text) = "\\end{itemize}" THEN open /\ Balanced(Tail(text), FALSE)
    ELSE Balanced(Tail(text), open)

FirstToken(line) == IF line = << >> THEN "" ELSE Head(line)

\* C19 as stated: every maximal run of contiguous bullet lines becomes one
\* itemize block, a blank line closing an open list as any other line that
\* is no bullet does, so that two bullet runs with a blank line between
\* them give two blocks; and every opened block is closed.
C19_BlankLineCloses ==
    cleaned_text # << >> =>
        /\ Count(cleaned_text[1], "\\begin{itemize}")
              = Cardinality(ContiguousRuns(ListPassLines))
        /\ Balanced(cleaned_text[1], FALSE)

\* C19, amended: once the emphasis markers are stripped, every maximal run
\* of bullet lines, the blank lines between them included, becomes one
\* itemize block with one item for each bullet line; an open list is closed
\* before the first following line that is neither blank nor a bullet, or
\* at the end of the text, and not by a blank line; every opened block is
\* closed.
C19_OneBlockPerRun ==
    cleaned_text # << >> =>
        LET out   == cleaned_text[1]
            lines == SplitLines(out)
        IN  /\ Count(out, "\\begin{itemize}") = Cardinality(LooseRuns(ListPassLines))
            /\ Count(out, "\\item")
                  = Cardinality({i \in 1..Len(ListPassLines) : is_bullet(ListPassLines[i])})
            /\ Balanced(out, FALSE)
            /\ \A i \in 1..Len(lines) :
                  lines[i] = <<"\\end{itemize}">> =>
                      /\ i > 1
                      /\ i < Len(lines) =>
                            /\ ~IsBlank(lines[i + 1])
                            /\ FirstToken(lines[i + 1]) \notin {"\\item", "\\begin{itemize}"}
                      /\ \E j \in 1..(i - 1) :
                            /\ FirstToken(lines[j]) = "\\item"
                            /\ \A m \in (j + 1)..(i - 1) : IsBlank(lines[m])

\* two bullet runs with a blank line between them, then a line of text
C19_Witness ==
    /\ cleaned_text # << >>
    /\ arg_content = <<"-", " ", "Alpha", "\n", "\n", "*", " ", "Beta">>
    /\ cleaned_text[1] = <<"\\begin{itemize}", "\n", "\\item", " ", "Alpha", "\n",
                           "\n", "\\item", " ", "Beta", "\n", "\\end{itemize}">>

\* a line of ordinary text
IsTextLine(line) ==
    /\ ~IsBlank(line)
    /\ Head(line) \notin SectionCommands \cup ListCommands
                         \cup {"\\vspace{0.5em}", "\\noindent",
                               "\\begin{abstract}", "\\end{abstract}",
                               "\\begin{enumerate}", "\\end{enumerate}"}

\* C20: in the output of format_section a heading command made from a
\* leaked header stands on a line of its own, whether or not blank lines
\* separated the header from the text around it, and that text is still
\* re-flowed: no two lines of ordinary text follow one another.  (Sections
\* without lists.)
C20_HeadingsOwnLine ==
    (/\ formatted_text # << >>
     /\ \A i \in 1..Len(formatted_text[1]) :
           formatted_text[1][i] \notin ListCommands) =>
        LET out   == formatted_text[1]
            lines == SplitLines(out)
        IN  /\ \A i \in 1..Len(out) :
                  out[i] \in SectionCommands =>
                      /\ i = 1 \/ out[i - 1] = "\n"
                      /\ IndexOf(out, "}", i) = LineEnd(out, i)
            /\ \A i \in 1..(Len(lines) - 1) :
                  ~(IsTextLine(lines[i]) /\ IsTextLine(lines[i + 1]))

(* ---------------------------------------------------------------------- *)
(* api.py: the job registry, the background task of a job and the          *)
(* endpoints that read the registry.  Tasks and endpoint handlers run on   *)
(* threads of a pool, so the statements of different tasks interleave.     *)
(* ---------------------------------------------------------------------- *)
\* str(uuid.uuid4())[:8]: the identifiers a submit can draw
JobIds == {"1a2b3c4d", "5e6f7a8b"}

\* the requests submitted to POST /generate
JobRequests ==
    {r \in Requests :
        /\ r.sections \in {<< >>, <<"Abstract">>}
        /\ r.feedback = EmptyText
        /\ r.threshold = 0}

\* how the two services answer during one run: the same way in every
\* iteration, the generation service with a text and the scoring service with
\* a total that meets the threshold (the other answers are those of Spec)
JobServices ==
    {[gen |-> g, ev |-> e] :
        g \in {r \in GenResponses : r.ok},
        e \in {r \in ScoreResponses :
                  r.ok /\ parse_evaluation(r.text).total >= SCORE_THRESHOLD}}

\* datetime.now().isoformat()
Timestamp == "2025-10-19T12:00:00"

\* the result dictionary of run_workflow
workflow_output(ttl, content_dict, evals, total, iter) ==
    [title         |-> ttl,
     sections      |-> content_dict,
     evaluations   |-> evals,
     total_score   |-> total,
     iterations    |-> iter,
     threshold_met |-> (total >= SCORE_THRESHOLD)]

NoOutput == workflow_output("", EmptyDict, EmptyDict, 0, 0)

\* the while loop of run_workflow from iteration iter on, the services
\* answering as svc says: the test of the loop, the body after
\* generate_all_sections has returned g, and the body after evaluate_paper
\* has returned e in iteration n
RECURSIVE workflow_loop(_, _, _, _, _, _, _, _)
RECURSIVE loop_generated(_, _, _, _, _)
RECURSIVE loop_evaluated(_, _, _, _, _, _)
loop_evaluated(ttl, sects, content_dict, n, svc, e) ==
    IF Raised(e)
    THEN Raise(e.exc, NoOutput)
    ELSE IF threshold_met(e.total_score) \/ budget_exhausted(n)
    THEN Return(workflow_output(ttl, content_dict, e.evaluations,
                                e.total_score, n))
    ELSE workflow_loop(ttl, sects, content_dict, derive_feedback(e.evaluations),
                       n, e.total_score, e.evaluations, svc)

loop_generated(ttl, sects, n, svc, g) ==
    IF Raised(g)
    THEN Raise(g.exc, NoOutput)
    ELSE loop_evaluated(ttl, sects, g.val, n, svc,
                        evaluate_paper(ttl, g.val,
                                       [i \in 1..Len(g.val) |-> svc.ev]))

workflow_loop(ttl, sects, content_dict, fb_dict, iter, total, evals, svc) ==
    IF ~has_budget(iter)
    THEN Return(workflow_output(ttl, content_dict, evals, total, iter))
    ELSE loop_generated(ttl, sects, next_iteration(iter), svc,
                        generate_all_sections(ttl, sects, fb_dict,
                                              [i \in 1..Len(sects) |-> svc.gen]))

\* run_workflow up to the end of its loop: the data it is about to write
\* and return, or the exception it raises
run_workflow(data, svc) ==
    LET ttl   == IF "title" \in DOMAIN data THEN data.title ELSE "Untitled Paper"
        sects == IF "sections" \in DOMAIN data THEN data.sections ELSE << >>
    IN  IF no_sections(sects)
        THEN Raise(<<"No sections provided in input data">>, NoOutput)
        ELSE workflow_loop(ttl, sects, EmptyDict, EmptyDict, 0, 0, EmptyDict, svc)

\* the files of the working directory
PaperTex == <<"paper.tex">>

PaperJson == <<"paper_final.json">>

OutputJson(job_id) == <<"output_paper_", job_id, ".json">>

OutputTex(job_id) == <<"output_paper_", job_id, ".tex">>

\* open(name, 'w') and the write: the file holds content, written by task t
WriteFile(d, name, t, content) ==
    [f \in DOMAIN d \cup {name} |->
        IF f = name THEN [by |-> t, content |-> content] ELSE d[f]]

\* what open() or the write raises when the file cannot be written
DiskError == <<"[Errno 28] No space left on device">>

\* the record generate_paper puts into jobs
NewJob(job_id, req) ==
    [job_id       |-> job_id,
     status       |-> "pending",
     progress     |-> "Job queued",
     request      |-> req,
     created_at   |-> Timestamp,
     completed_at |-> None,
     json         |-> None,
     latex        |-> None,
     final_score  |-> None,
     iterations   |-> None,
     error        |-> None]

\* jobs[job_id] = record
PutJob(registry, job_id, record) ==
    [j \in DOMAIN registry \cup {job_id} |->
        IF j = job_id THEN record ELSE registry[j]]

\* the locals of a background task that has not run yet
NewTask(job_id, req) ==
    [job_id    |-> job_id,
     request   |-> req,
     pc        |-> "queued",
     result    |-> None,
     latex     |-> None,
     exc       |-> EmptyText,
     published |-> FALSE]

\* the module is loaded: no job, no paper
JobInit ==
    /\ NoRun
    /\ NoParse
    /\ NoConversion
    /\ NoServer

\* POST /generate: generate_paper.  The identifier is any of those the
\* truncated uuid can be, one already in the registry included
Submit ==
    /\ Len(tasks) < MaxJobs
    /\ \E job_id \in JobIds, req \in JobRequests :
          /\ jobs' = PutJob(jobs, job_id, NewJob(job_id, req))
          /\ tasks' = Append(tasks, NewTask(job_id, req))
          /\ collided' = (collided \/ job_id \in DOMAIN jobs)
    /\ UNCHANGED <<run, parser, converter, latest_paper, latest_by, disk, response>>

\* the except branch is entered with the exception's message
Fail(t, message) ==
    tasks' = [tasks EXCEPT ![t].pc = "except", ![t].exc = message]

\* generate_paper_task: status and progress of the start
TaskStart(t) ==
    /\ tasks[t].pc = "queued"
    /\ jobs' = [jobs EXCEPT ![tasks[t].job_id].status = "processing",
                            ![tasks[t].job_id].progress = "Generating paper content..."]
    /\ tasks' = [tasks EXCEPT ![t].pc = "run"]
    /\ UNCHANGED <<run, parser, converter, latest_paper, latest_by, disk, response,
                   collided>>

\* generate_paper_task: input_data
task_input(req) ==
    [title |-> req.title, sections |-> req.sections, feedback |-> req.feedback]

\* generate_paper_task: run_workflow has come to the end of its loop with r
task_ran(t, r) ==
    IF Raised(r)
    THEN Fail(t, r.exc)
    ELSE tasks' = [tasks EXCEPT ![t].pc = "paper_tex", ![t].result = Some(r.val)]

\* generate_paper_task: input_data, and run_workflow up to the end of its loop
TaskRun(t) ==
    /\ tasks[t].pc = "run"
    /\ \E svc \in JobServices :
          task_ran(t, run_workflow(task_input(tasks[t].request), svc))
    /\ UNCHANGED <<run, parser, converter, jobs, latest_paper, latest_by, disk,
                   response, collided>>

\* run_workflow, Step 4: save_latex(latex_content, "paper.tex"), then
\* json.dump(final_output) into "paper_final.json"; either write can fail
TaskWorkflowFiles(t) ==
    /\ tasks[t].pc \in {"paper_tex", "paper_json"}
    /\ LET result == tasks[t].result[1]
       IN  \/ /\ tasks[t].pc = "paper_tex"
              /\ disk' = WriteFile(disk, PaperTex, t,
                                   generate_latex(result.title, result.sections))
              /\ tasks' = [tasks EXCEPT ![t].pc = "paper_json"]
           \/ /\ tasks[t].pc = "paper_json"
              /\ disk' = WriteFile(disk, PaperJson, t, result)
              /\ tasks' = [tasks EXCEPT ![t].pc = "convert"]
           \/ /\ Fail(t, DiskError)
              /\ disk' = disk
    /\ UNCHANGED <<run, parser, converter, jobs, latest_paper, latest_by, response,
                   collided>>

\* generate_paper_task, "Generate LaTeX"
TaskConvert(t) ==
    /\ tasks[t].pc = "convert"
    /\ jobs' = [jobs EXCEPT ![tasks[t].job_id].progress = "Converting to LaTeX..."]
    /\ tasks' = [tasks EXCEPT
                    ![t].pc = "store_json",
                    ![t].latex = Some(generate_latex(tasks[t].result[1].title,
                                                     tasks[t].result[1].sections))]
    /\ UNCHANGED <<run, parser, converter, latest_paper, latest_by, disk, response,
                   collided>>

\* generate_paper_task, "Store results": the six assignments to the job
\* record, one at a time, in the order of the code
StoreOrder ==
    <<"json", "latex", "status", "final_score", "iterations", "completed_at">>

StoreField(job, field, result, latex) ==
    CASE field = "json"         -> [job EXCEPT !.json = Some(result)]
      [] field = "latex"        -> [job EXCEPT !.latex = Some(latex)]
      [] field = "status"       -> [job EXCEPT !.status = "completed"]
      [] field = "final_score"  -> [job EXCEPT !.final_score = Some(result.total_score)]
      [] field = "iterations"   -> [job EXCEPT !.iterations = Some(result.iterations)]
      [] field = "completed_at" -> [job EXCEPT !.completed_at = Some(Timestamp)]

StorePc(i) == <<"store_json", "store_latex", "store_status", "store_score",
                "store_iterations", "store_completed_at", "latest_json">>[i]

TaskStore(t) ==
    /\ \E i \in 1..6 :
          /\ tasks[t].pc = StorePc(i)
          /\ jobs' = [jobs EXCEPT ![tasks[t].job_id] =
                         StoreField(@, StoreOrder[i], tasks[t].result[1],
                                    tasks[t].latex[1])]
          /\ tasks' = [tasks EXCEPT
                          ![t].pc = StorePc(i + 1),
                          ![t].published = (@ \/ StoreOrder[i] = "status")]
    /\ UNCHANGED <<run, parser, converter, latest_paper, latest_by, disk, response,
                   collided>>

\* generate_paper_task, "Also update latest_paper": two assignments
TaskLatest(t) ==
    /\ \/ /\ tasks[t].pc = "latest_json"
          /\ latest_paper' = [latest_paper EXCEPT !.json = tasks[t].result]
          /\ latest_by' = [latest_by EXCEPT !.json = t]
          /\ tasks' = [tasks EXCEPT ![t].pc = "latest_latex", ![t].published = TRUE]
       \/ /\ tasks[t].pc = "latest_latex"
          /\ latest_paper' = [latest_paper EXCEPT !.latex = tasks[t].latex]
          /\ latest_by' = [latest_by EXCEPT !.latex = t]
          /\ tasks' = [tasks EXCEPT ![t].pc = "save_json", ![t].published = TRUE]
    /\ UNCHANGED <<run, parser, converter, jobs, disk, response, collided>>

\* generate_paper_task, "Save to files": either write can fail
TaskSave(t) ==
    /\ tasks[t].pc \in {"save_json", "save_tex"}
    /\ \/ /\ tasks[t].pc = "save_json"
          /\ disk' = WriteFile(disk, OutputJson(tasks[t].job_id), t,
                               tasks[t].result[1])
          /\ tasks' = [tasks EXCEPT ![t].pc = "save_tex"]
       \/ /\ tasks[t].pc = "save_tex"
          /\ disk' = WriteFile(disk, OutputTex(tasks[t].job_id), t,
                               tasks[t].latex[1])
          /\ tasks' = [tasks EXCEPT ![t].pc = "done"]
       \/ /\ Fail(t, DiskError)
          /\ disk' = disk
    /\ UNCHANGED <<run, parser, converter, jobs, latest_paper, latest_by, response,
                   collided>>

\* generate_paper_task, "except Exception as e"
TaskExcept(t) ==
    /\ tasks[t].pc = "except"
    /\ jobs' = [jobs EXCEPT ![tasks[t].job_id].status = "failed",
                            ![tasks[t].job_id].error = Some(tasks[t].exc),
                            ![tasks[t].job_id].completed_at = Some(Timestamp)]
    /\ tasks' = [tasks EXCEPT ![t].pc = "failed"]
    /\ UNCHANGED <<run, parser, converter, latest_paper, latest_by, disk, response,
                   collided>>

not_completed_pending(job) == job.status = "pending"

\* job["status"] != "completed"
not_completed(job) == job.status # "completed"

\* get_paper_json_by_id and get_paper_latex_by_id: field is "json" or "latex"
get_paper_by_id(job_id, field) ==
    IF job_id \notin DOMAIN jobs
    THEN [code |-> 404, body |-> None]
    ELSE IF not_completed(jobs[job_id])
    THEN [code |-> 400, body |-> None]
    ELSE IF (IF field = "json" THEN jobs[job_id].json ELSE jobs[job_id].latex) = None
    THEN [code |-> 500, body |-> None]
    ELSE [code |-> 200,
          body |-> IF field = "json" THEN jobs[job_id].json ELSE jobs[job_id].latex]

\* what the registry holds for the identifier when a handler answers
StatusSeen(job_id) ==
    IF job_id \in DOMAIN jobs THEN jobs[job_id].status ELSE ""

\* GET /paper/{job_id}/json and GET /paper/{job_id}/latex
FetchPaper ==
    /\ \E job_id \in JobIds, field \in {"json", "latex"} :
          response' = [endpoint |-> field,
                       known    |-> (job_id \in DOMAIN jobs),
                       status   |-> StatusSeen(job_id),
                       code     |-> get_paper_by_id(job_id, field).code,
                       body     |-> get_paper_by_id(job_id, field).body]
    /\ UNCHANGED <<run, parser, converter, jobs, latest_paper, latest_by, disk,
                   tasks, collided>>

\* the StatusResponse get_job_status builds from a job record
StatusResponse(job) ==
    [job_id       |-> job.job_id,
     status       |-> job.status,
     progress     |-> job.progress,
     final_score  |-> job.final_score,
     iterations   |-> job.iterations,
     error        |-> job.error,
     created_at   |-> job.created_at,
     completed_at |-> job.completed_at]

\* get_job_status
get_job_status(job_id) ==
    IF job_id \notin DOMAIN jobs
    THEN [code |-> 404, body |-> None]
    ELSE [code |-> 200, body |-> Some(StatusResponse(jobs[job_id]))]

\* GET /status/{job_id}
GetStatus ==
    /\ \E job_id \in JobIds :
          response' = [endpoint |-> "status",
                       known    |-> (job_id \in DOMAIN jobs),
                       status   |-> StatusSeen(job_id),
                       code     |-> get_job_status(job_id).code,
                       body     |-> get_job_status(job_id).body]
    /\ UNCHANGED <<run, parser, converter, jobs, latest_paper, latest_by, disk,
                   tasks, collided>>

JobNext ==
    \/ Submit
    \/ \E t \in 1..Len(tasks) : TaskStart(t)
    \/ \E t \in 1..Len(tasks) : TaskRun(t)
    \/ \E t \in 1..Len(tasks) : TaskWorkflowFiles(t)
    \/ \E t \in 1..Len(tasks) : TaskConvert(t)
    \/ \E t \in 1..Len(tasks) : TaskStore(t)
    \/ \E t \in 1..Len(tasks) : TaskLatest(t)
    \/ \E t \in 1..Len(tasks) : TaskSave(t)
    \/ \E t \in 1..Len(tasks) : TaskExcept(t)
    \/ FetchPaper
    \/ GetStatus

JobSpec == JobInit /\ [][JobNext]_vars

(* ---------------------------------------------------------------------- *)
(* Properties of the job registry                                          *)
(* ---------------------------------------------------------------------- *)
\* the moves of a job's status that the lifecycle allows
Forward ==
    {<<"pending", "processing">>, <<"processing", "completed">>,
     <<"processing", "failed">>}

\* C13: the status of a job only moves forward along pending -> processing ->
\* {completed, failed}; a completed or failed job never changes its status
\* again.  Jobs whose identifier was drawn twice are left aside.
C13_ForwardOnly ==
    [][~collided' =>
         \A id \in DOMAIN jobs :
            \/ jobs'[id].status = jobs[id].status
            \/ <<jobs[id].status, jobs'[id].status>> \in Forward]_vars

\* C14: fetching a job's JSON or LaTeX answers 404 exactly when the
\* identifier is not in the registry and 400 exactly when the job is there
\* with a status other than completed; a body comes only with a completed job
C14_FetchAnswers ==
    response.endpoint \in {"json", "latex"} =>
        /\ (response.code = 404) <=> ~response.known
        /\ (response.code = 400) <=>
               (response.known /\ response.status # "completed")
        /\ response.body # None =>
               (response.code = 200 /\ response.status = "completed")

\* each answer has been given once: a paper of a completed job is fetched
\* while the other identifier is unknown or its job still runs
C14_Witness ==
    /\ response.endpoint = "latex"
    /\ response.code = 200
    /\ response.body # None
    /\ \E t \in 1..Len(tasks) : tasks[t].pc = "done"
    /\ \E id \in JobIds :
          get_paper_by_id(id, "json").code \in {400, 404}

\* task t has not left generate_paper_task
Running(t) == tasks[t].pc \notin {"queued", "done", "failed"}

\* C15: two jobs that run concurrently share nothing: while a job runs, no
\* file it has written and no half of latest_paper it has stored is
\* overwritten by another job.  Jobs whose identifier was drawn twice are
\* left aside.
C15_NoSharedWrites ==
    [][~collided' =>
         /\ \A f \in DOMAIN disk :
               Running(disk[f].by) => disk'[f].by = disk[f].by
         /\ \A h \in {"json", "latex"} :
               (latest_by[h] # 0 /\ Running(latest_by[h]))
                  => latest_by'[h] = latest_by[h]]_vars

\* C18: a job in which an exception occurred has never been shown as
\* completed and has never been stored as the latest paper, and it ends
\* failed with the exception's message as its error.  Jobs whose identifier
\* was drawn twice are left aside.
C18_FailedNeverPublished ==
    ~collided =>
       \A t \in 1..Len(tasks) :
          tasks[t].exc # EmptyText =>
             /\ ~tasks[t].published
             /\ tasks[t].pc = "failed" =>
                   /\ jobs[tasks[t].job_id].status = "failed"
                   /\ jobs[tasks[t].job_id].error = Some(tasks[t].exc)

(* ---------------------------------------------------------------------- *)
(* Properties of the evaluator's sub-scores                                *)
(* ---------------------------------------------------------------------- *)
\* C21: each of the four sub-scores of a result of parse_evaluation is an
\* integer from 0 to 10
C21_SubScoresInRange ==
    parsed # << >> =>
        /\ parsed[1].relevance \in 0..10
        /\ parsed[1].coherence \in 0..10
        /\ parsed[1].factuality \in 0..10
        /\ parsed[1].readability \in 0..10

(* ---------------------------------------------------------------------- *)
(* Properties of the registry under polls and submits                      *)
(* ---------------------------------------------------------------------- *)
\* C22: whatever the interleaving of a running job with polls and fetches, a
\* job seen as completed has a complete record: a fetch never answers 500
\* (data not available) and a poll that reports the status completed reports
\* a final score, an iteration count and a completion time.  Jobs whose
\* identifier was drawn twice are left aside.
C22_CompletedIsComplete ==
    ~collided =>
       /\ response.endpoint \in {"json", "latex"} => response.code # 500
       /\ (response.endpoint = "status" /\ response.code = 200
              /\ response.body[1].status = "completed") =>
             /\ response.body[1].final_score # None
             /\ response.body[1].iterations # None
             /\ response.body[1].completed_at # None

\* C23: every submit creates its job under an identifier that is not in the
\* registry: no submit has replaced the record of an earlier job, and the
\* registry holds as many jobs as there were submits
C23_FreshIdentifier ==
    /\ ~collided
    /\ Cardinality(DOMAIN jobs) = Len(tasks)

====
